---- MODULE Spec2Model ----
(***************************************************************************)
(* ra_flycheck: a Flycheck handle owning a FlycheckThread (the supervisor  *)
(* loop), which owns at most one check_process thread (the event bridge)   *)
(* that drives run_cargo over one child process.                           *)
(*                                                                         *)
(* Threads are modelled by program counters; every blocking point of the   *)
(* code (select!, the join performed by dropping a jod_thread::JoinHandle, *)
(* the blocking read of the child's stdout) separates two actions.         *)
(***************************************************************************)
EXTENDS Integers, Sequences, FiniteSets, TLC

\* Bounds of the model.
MaxUpdates == 2      \* calls of Flycheck::update explored
MaxLines == 2        \* lines a child writes to stdout before it must close it

Runs == 1..MaxUpdates

\* never() as the value of message_recv; Option::None as the value of check_process.
Never == 0
NoThread == 0

VARIABLES
    dropPc,           \* Flycheck: 0 live, 1 drop begun, 1+k: k fields dropped
    cmdQueue,         \* command channel: number of queued CheckCommand::Update
    cmdsSent,         \* number of Update commands sent by the owner
    sentActive,       \* ... of which sent while a run had begun and not ended
    updateFailed,     \* the unwrap in Flycheck::update has panicked
    tasks,            \* task channel: every CheckTask sent, in order
    loopPc,           \* FlycheckThread: position of the loop thread
    loopPanicked,     \* the loop thread is unwinding / has died from a panic
    last_update_req,  \* FlycheckThread.last_update_req is Some
    progress,         \* FlycheckThread.progress is Some
    message_recv,     \* FlycheckThread.message_recv: Never or the run it receives from
    check_process,    \* FlycheckThread.check_process: NoThread or the run's thread
    cmdsRecv,         \* number of Update commands the loop has received
    handled,          \* what the loop has handled of the events of the latest run
    nRuns,            \* number of check_process threads spawned so far
    bridge,           \* per run: the check_process thread and its child
    chan              \* per run: the event channel

vars == <<dropPc, cmdQueue, cmdsSent, sentActive, updateFailed, tasks, loopPc, loopPanicked,
          last_update_req, progress, message_recv, check_process, cmdsRecv,
          handled, nRuns, bridge, chan>>

ownerVars == <<dropPc, cmdQueue, cmdsSent, sentActive, updateFailed>>
loopVars == <<loopPc, loopPanicked, last_update_req, progress, message_recv,
              check_process, cmdsRecv, handled>>

----------------------------------------------------------------------------
\* Data

\* What one line of the child's stdout can be: "Bad" for an item of
\* parse_stream that is an Err, else the kind of the cargo_metadata::Message
\* ("ArtifactFresh" is a CompilerArtifact with fresh set, "Diag" a
\* CompilerMessage). TextLine is treated by every match of the code exactly
\* as BuildFinished is, which stands for both.
Kinds == {"Bad", "ArtifactFresh", "Artifact", "Diag", "BuildScript",
          "BuildFinished", "Unknown"}

\* A CheckTask, tagged with the run whose event produced it. The diagnostic
\* carried is identified as the n-th CompilerMessage its child has written.
ClearDiagnostics == [t |-> "Clear", run |-> 0, n |-> 0]
AddDiagnostic(r, n) == [t |-> "Add", run |-> r, n |-> n]

\* A CheckEvent; n identifies the diagnostic of a CompilerMessage and is 0
\* for every other message.
Begin == [e |-> "Begin", kind |-> "none", n |-> 0]
End == [e |-> "End", kind |-> "none", n |-> 0]
Msg(k, n) == [e |-> "Msg", kind |-> k, n |-> n]

NoBridge == [pc |-> "none", child |-> "none", readOne |-> FALSE, lines |-> 0, diags |-> 0,
             last |-> "none", stopped |-> FALSE, os |-> "none", res |-> "none", logged |-> FALSE]
NoChan == [q |-> <<>>, recv |-> FALSE, send |-> FALSE]

----------------------------------------------------------------------------
\* Flycheck (the handle)

\* Fields of Flycheck in declaration order, which is the order they are dropped in.
DropOrderSwapped == <<"handle", "cmd_send", "task_recv">>
DropOrderTaskFirst == <<"cmd_send", "task_recv", "handle">>
DropOrder == <<"cmd_send", "handle", "task_recv">>

FieldDropped(f) == \E i \in 1..Len(DropOrder) : DropOrder[i] = f /\ dropPc > i
CmdSendAlive == ~FieldDropped("cmd_send")
TaskRecvAlive == ~FieldDropped("task_recv")
HandleAlive == dropPc = 0
DropDone == dropPc = Len(DropOrder) + 1

\* The closure of the loop thread owns cmd_recv and task_send until it returns.
CmdRecvAlive == loopPc # "exited"

\* A run is active from the start of its thread until it has sent End.
RunActive(r) == bridge[r].pc \in {"begin", "reading", "report"}

\* Flycheck::update
Update ==
    /\ HandleAlive
    /\ cmdsSent < MaxUpdates
    /\ ~updateFailed
    /\ IF CmdRecvAlive
       THEN /\ cmdQueue' = cmdQueue + 1
            /\ cmdsSent' = cmdsSent + 1
            /\ sentActive' = IF \E r \in Runs : RunActive(r)
                             THEN sentActive + 1 ELSE sentActive
            /\ UNCHANGED updateFailed
       ELSE /\ updateFailed' = TRUE
            /\ UNCHANGED <<cmdQueue, cmdsSent, sentActive>>
    /\ UNCHANGED <<dropPc, tasks, loopVars, nRuns, bridge, chan>>

\* The owner lets go of the Flycheck value.
DropHandle ==
    /\ dropPc = 0
    /\ dropPc' = 1
    /\ UNCHANGED <<cmdQueue, cmdsSent, sentActive, updateFailed, tasks, loopVars, nRuns,
                   bridge, chan>>

\* Dropping the next field: a Sender or Receiver is released at once, the
\* jod_thread::JoinHandle joins the loop thread.
DropField ==
    /\ dropPc >= 1 /\ ~DropDone
    /\ DropOrder[dropPc] = "handle" => loopPc = "exited"
    /\ dropPc' = dropPc + 1
    /\ UNCHANGED <<cmdQueue, cmdsSent, sentActive, updateFailed, tasks, loopVars, nRuns,
                   bridge, chan>>

----------------------------------------------------------------------------
\* Channels and threads

\* Sender::send on the event channel of run r: it fails, and leaves the
\* channel alone, once the receiver is gone.
SendOk(ch, r) == ch[r].recv
Send(ch, r, ev) == IF SendOk(ch, r) THEN [ch EXCEPT ![r].q = Append(@, ev)] ELSE ch

\* Dropping the Receiver held in message_recv (never() owns no channel); a
\* disconnected channel discards what it still buffers.
DropReceiver(ch, mr) ==
    IF mr = Never THEN ch ELSE [ch EXCEPT ![mr].recv = FALSE, ![mr].q = <<>>]

\* Dropping an Option<jod_thread::JoinHandle>: None drops at once, Some joins,
\* that is, returns only when the thread has terminated.
JoinDetached(t) == TRUE
JoinDone(t) == IF t = NoThread THEN TRUE ELSE bridge[t].pc = "exited"

----------------------------------------------------------------------------
\* FlycheckThread (the supervisor loop)

\* clean_previous_results: the outcome of the send and the new progress.
clean_results_silent ==
    [panic |-> FALSE, tasks |-> tasks, progress |-> FALSE]
clean_previous_results ==
    IF TaskRecvAlive
    THEN [panic |-> FALSE, tasks |-> Append(tasks, ClearDiagnostics), progress |-> FALSE]
    ELSE [panic |-> TRUE, tasks |-> tasks, progress |-> progress]

\* handle_command: the new value of last_update_req.
handle_command_ignored(lur) == lur
handle_command(lur) == TRUE

\* should_recheck
should_recheck(lur) == lur

\* task_send.send(CheckTask::ClearDiagnostics) of the loop body.
RestartTasksNoClear(tk) == tk
RestartTasks(tk) == Append(tk, ClearDiagnostics)

\* handle_message for an event of run r: the outcome of its send or expect,
\* the new progress and the new task stream.
handle_message_silent(ev, r, pr, tk) ==
    [panic |-> FALSE,
     progress |-> IF ev.e = "Begin" THEN TRUE ELSE IF ev.e = "End" THEN FALSE ELSE pr,
     tasks |-> tk]
handle_message(ev, r, pr, tk) ==
    CASE ev.e = "Begin" -> [panic |-> FALSE, progress |-> TRUE, tasks |-> tk]
      [] ev.e = "End" -> [panic |-> FALSE, progress |-> FALSE, tasks |-> tk]
      [] ev.e = "Msg" /\ ev.kind \in {"Artifact", "ArtifactFresh"} ->
            [panic |-> ~pr, progress |-> pr, tasks |-> tk]
      [] ev.e = "Msg" /\ ev.kind = "Diag" ->
            IF TaskRecvAlive
            THEN [panic |-> FALSE, progress |-> pr,
                  tasks |-> Append(tk, AddDiagnostic(r, ev.n))]
            ELSE [panic |-> TRUE, progress |-> pr, tasks |-> tk]
      [] OTHER -> [panic |-> FALSE, progress |-> pr, tasks |-> tk]

\* What the loop has handled of a run's events, after it has handled ev:
\* nothing, its Begin and not its End, or its End.
Observed(ev, h) ==
    CASE ev.e = "Begin" -> "begun"
      [] ev.e = "End" -> "ended"
      [] OTHER -> h

\* A panic of the loop thread: it unwinds, dropping the FlycheckThread.
LoopPanics ==
    /\ loopPc' = "drop0"
    /\ loopPanicked' = TRUE

\* The end of one iteration of the loop body, after the select! arm left
\* last_update_req = lur, the task stream tk and the channels ch: the
\* should_recheck test, the ClearDiagnostics and the first statement of
\* restart_check_process, up to the join of the old thread.
LoopIterEnd(lur, tk, ch) ==
    IF should_recheck(lur)
    THEN IF TaskRecvAlive
         THEN /\ last_update_req' = FALSE
              /\ tasks' = RestartTasks(tk)
              /\ message_recv' = Never
              /\ chan' = DropReceiver(ch, message_recv)
              /\ loopPc' = "restart"
              /\ UNCHANGED loopPanicked
         ELSE /\ last_update_req' = FALSE
              /\ tasks' = tk
              /\ chan' = ch
              /\ UNCHANGED message_recv
              /\ LoopPanics
    ELSE /\ last_update_req' = lur
         /\ tasks' = tk
         /\ chan' = ch
         /\ loopPc' = "select"
         /\ UNCHANGED <<message_recv, loopPanicked>>

\* run, before the loop.
LoopStart ==
    /\ loopPc = "start"
    /\ LET o == clean_previous_results IN
         /\ tasks' = o.tasks
         /\ progress' = o.progress
         /\ IF o.panic THEN LoopPanics
            ELSE loopPc' = "select" /\ UNCHANGED loopPanicked
    /\ UNCHANGED <<ownerVars, last_update_req, message_recv, check_process,
                   cmdsRecv, handled, nRuns, bridge, chan>>

\* select!: recv(cmd_recv) -> Ok(cmd)
LoopRecvCmd ==
    /\ loopPc = "select"
    /\ cmdQueue > 0
    /\ cmdQueue' = cmdQueue - 1
    /\ cmdsRecv' = cmdsRecv + 1
    /\ LoopIterEnd(handle_command(last_update_req), tasks, chan)
    /\ UNCHANGED <<dropPc, cmdsSent, sentActive, updateFailed, progress, check_process,
                   handled, nRuns, bridge>>

\* recv(cmd_recv) yields Err(RecvError): the channel is disconnected and
\* holds no command any more.
CmdRecvErrEager == ~CmdSendAlive
CmdRecvErr == cmdQueue = 0 /\ ~CmdSendAlive

\* select!: recv(cmd_recv) -> Err(RecvError): break.
LoopCmdClosed ==
    /\ loopPc = "select"
    /\ CmdRecvErr
    /\ loopPc' = "drop0"
    /\ UNCHANGED <<ownerVars, tasks, loopPanicked, last_update_req, progress,
                   message_recv, check_process, cmdsRecv, handled, nRuns, bridge, chan>>

\* select!: recv(self.message_recv) -> Ok(msg)
LoopRecvMsg ==
    /\ loopPc = "select"
    /\ message_recv # Never
    /\ chan[message_recv].q # <<>>
    /\ LET r == message_recv
           o == handle_message(Head(chan[r].q), r, progress, tasks)
           ch == [chan EXCEPT ![r].q = Tail(@)]
       IN /\ progress' = o.progress
          /\ handled' = Observed(Head(chan[r].q), handled)
          /\ IF o.panic
             THEN /\ LoopPanics
                  /\ tasks' = o.tasks
                  /\ chan' = ch
                  /\ UNCHANGED <<last_update_req, message_recv>>
             ELSE LoopIterEnd(last_update_req, o.tasks, ch)
    /\ UNCHANGED <<ownerVars, check_process, cmdsRecv, nRuns, bridge>>

\* Where the Err(RecvError) arm of recv(self.message_recv) leaves the loop
\* thread: in the join of check_process = None, inside the loop.
MsgClosedBreaks == "drop0"
MsgClosedNext == "closed"

\* select!: recv(self.message_recv) -> Err(RecvError): message_recv = never(),
\* then check_process = None starts to join the finished thread.
LoopMsgClosed ==
    /\ loopPc = "select"
    /\ message_recv # Never
    /\ chan[message_recv].q = <<>> /\ ~chan[message_recv].send
    /\ message_recv' = Never
    /\ chan' = DropReceiver(chan, message_recv)
    /\ loopPc' = MsgClosedNext
    /\ UNCHANGED <<ownerVars, tasks, loopPanicked, last_update_req, progress,
                   check_process, cmdsRecv, handled, nRuns, bridge>>

\* The join of the closed-channel arm returns; the iteration ends.
LoopClosedJoined ==
    /\ loopPc = "closed"
    /\ JoinDone(check_process)
    /\ check_process' = NoThread
    /\ LoopIterEnd(last_update_req, tasks, chan)
    /\ UNCHANGED <<ownerVars, progress, cmdsRecv, handled, nRuns, bridge>>

\* restart_check_process from the join of check_process = None on: the new
\* channel, and the new thread, which starts at its first statement.
LoopRestartSpawn ==
    /\ loopPc = "restart"
    /\ JoinDone(check_process)
    /\ nRuns < MaxUpdates
    /\ LET r == nRuns + 1 IN
         /\ nRuns' = r
         /\ chan' = [chan EXCEPT ![r] = [q |-> <<>>, recv |-> TRUE, send |-> TRUE]]
         /\ message_recv' = r
         /\ check_process' = r
         /\ bridge' = [bridge EXCEPT ![r] = [NoBridge EXCEPT !.pc = "begin"]]
    /\ handled' = "none"
    /\ loopPc' = "select"
    /\ UNCHANGED <<ownerVars, tasks, loopPanicked, last_update_req, progress,
                   cmdsRecv>>

\* The fields of FlycheckThread whose drop another thread can see, in
\* declaration order; progress and the other fields declared before them
\* are dropped first.
ThreadDropOrder == <<"message_recv", "check_process">>

DropStage == <<"drop0", "drop1">>

\* The FlycheckThread temporary is dropped field by field when run returns
\* or unwinds; after the last field the closure ends and the thread is gone.
LoopDropField ==
    \E k \in 1..Len(ThreadDropOrder) :
        /\ loopPc = DropStage[k]
        /\ loopPc' = IF k = Len(ThreadDropOrder) THEN "exited" ELSE DropStage[k + 1]
        /\ progress' = FALSE
        /\ CASE ThreadDropOrder[k] = "message_recv" ->
                    /\ message_recv' = Never
                    /\ chan' = DropReceiver(chan, message_recv)
                    /\ UNCHANGED check_process
             [] ThreadDropOrder[k] = "check_process" ->
                    /\ JoinDone(check_process)
                    /\ check_process' = NoThread
                    /\ UNCHANGED <<message_recv, chan>>
        /\ UNCHANGED <<ownerVars, tasks, loopPanicked, last_update_req, cmdsRecv,
                       handled, nRuns, bridge>>

----------------------------------------------------------------------------
\* The check_process thread (the event bridge) and run_cargo

\* The messages the closure passed to run_cargo returns true for unsent.
Filtered(kind) == kind \in {"ArtifactFresh", "BuildScript", "Unknown"}

\* The closure passed to run_cargo, for a message of run r (n identifies its
\* diagnostic): whether run_cargo
\* keeps reading, and the channels afterwards.
on_message_unchecked(ch, r, kind, n) ==
    [keep |-> TRUE, chan |-> IF Filtered(kind) THEN ch ELSE Send(ch, r, Msg(kind, n))]
on_message(ch, r, kind, n) ==
    IF Filtered(kind)
    THEN [keep |-> TRUE, chan |-> ch]
    ELSE [keep |-> SendOk(ch, r), chan |-> Send(ch, r, Msg(kind, n))]

\* What run_cargo returns once the child was spawned, from what kill and wait
\* met (os) and read_at_least_one_message.
RunCargoResultAnyFailure(os, readOne) ==
    IF os = "wait_failed" THEN "err_wait"
    ELSE IF os = "exit_fail" \/ ~readOne THEN "err_status"
    ELSE "ok"
RunCargoResult(os, readOne) ==
    IF os = "wait_failed" THEN "err_wait"
    ELSE IF os = "exit_fail" /\ ~readOne THEN "err_status"
    ELSE "ok"

\* What the operating system can answer to child.kill() and child.wait():
\* the exit status of the child, or a failure of the wait.
OSOutcomes == {"exit_ok", "exit_fail", "wait_failed"}

\* The child after child.kill() and child.wait(): reaped, or killed and of
\* unknown fate when the wait failed.
ChildNotKilled(os) == "running"
ChildAfterKill(os) == IF os = "wait_failed" THEN "killed" ELSE "reaped"

\* run_cargo after its read loop, for the thread state b: child.kill(),
\* child.wait()? and the result. The count of lines read is dropped; the
\* count of CompilerMessage decoded is kept until the thread ends.
RunCargoReturn(b, os) ==
    [b EXCEPT !.pc = "report", !.lines = 0,
              !.child = ChildAfterKill(os),
              !.os = os,
              !.res = RunCargoResult(os, b.readOne)]

\* The first statement of the closure: let _ = message_send.send(CheckEvent::Begin).
BeginOmitted(ch, r) == ch
SendBegin(ch, r) == Send(ch, r, Begin)

\* let _ = message_send.send(CheckEvent::Begin), then run_cargo up to its
\* read loop: command.spawn()?, which can fail.
BridgeBegin(r, ok) ==
    /\ bridge[r].pc = "begin"
    /\ chan' = SendBegin(chan, r)
    /\ bridge' = [bridge EXCEPT ![r] =
                    IF ok
                    THEN [@ EXCEPT !.pc = "reading", !.child = "running"]
                    ELSE [@ EXCEPT !.pc = "report", !.os = "spawn_failed",
                                   !.res = "err_spawn"]]
    /\ UNCHANGED <<ownerVars, tasks, loopVars, nRuns>>

\* The match on an item of parse_stream: Ok(message) goes on to the
\* callback, Err is logged and the loop continues with the next item.
ItemDecodedAlways(kind) == TRUE
ItemDecoded(kind) == kind # "Bad"

\* What the read loop last met, as far as the thread's control flow tells
\* items apart: an Err item, a message the filter suppresses, a message the
\* filter forwards, or the end of the stream.
ItemClass(kind) ==
    IF kind = "Bad" THEN "Bad" ELSE IF Filtered(kind) THEN "Skip" ELSE "Fwd"

\* The line the child writes next, as the read loop of run r meets it: its
\* number, the number of its diagnostic, and what the callback answers.
NextLine(r, kind) ==
    LET d == IF kind = "Diag" THEN bridge[r].diags + 1 ELSE bridge[r].diags
    IN [lines |-> bridge[r].lines + 1,
        diags |-> d,
        last |-> ItemClass(kind),
        cb |-> on_message(chan, r, kind, IF kind = "Diag" THEN d ELSE 0)]

\* run_cargo: one item of parse_stream, a line the child has written, after
\* which the loop goes on: an Err item, or a message for which the callback
\* returns true. The counts of lines and of CompilerMessage lines read exist
\* only to bound the lines and to identify the diagnostics.
BridgeReadLine(r, kind) ==
    /\ bridge[r].pc = "reading"
    /\ bridge[r].lines < MaxLines
    /\ LET l == NextLine(r, kind)
       IN IF ~ItemDecoded(kind)
          THEN /\ bridge' = [bridge EXCEPT ![r].lines = l.lines,
                                           ![r].last = l.last]
               /\ UNCHANGED chan
          ELSE /\ l.cb.keep
               /\ bridge' = [bridge EXCEPT ![r].lines = l.lines,
                                           ![r].diags = l.diags,
                                           ![r].last = l.last,
                                           ![r].readOne = TRUE]
               /\ chan' = l.cb.chan
    /\ UNCHANGED <<ownerVars, tasks, loopVars, nRuns>>

\* run_cargo: a line the child has written for which the callback returns
\* false: break, then kill, wait and the result.
BridgeReadStop(r, kind, os) ==
    /\ bridge[r].pc = "reading"
    /\ bridge[r].lines < MaxLines
    /\ ItemDecoded(kind)
    /\ LET l == NextLine(r, kind)
       IN /\ ~l.cb.keep
          /\ bridge' = [bridge EXCEPT ![r] =
                          RunCargoReturn([@ EXCEPT !.readOne = TRUE, !.stopped = TRUE,
                                                   !.last = l.last], os)]
          /\ chan' = l.cb.chan
    /\ UNCHANGED <<ownerVars, tasks, loopVars, nRuns>>

\* run_cargo: parse_stream ends, the child has closed its stdout; then kill,
\* wait and the result.
BridgeEOF(r, os) ==
    /\ bridge[r].pc = "reading"
    /\ bridge' = [bridge EXCEPT ![r] = RunCargoReturn([@ EXCEPT !.last = "EOF"], os)]
    /\ UNCHANGED <<ownerVars, tasks, loopVars, nRuns, chan>>

\* After run_cargo: log an Err, send End, and the closure returns, which
\* drops message_send. Of run_cargo only its result and the count of
\* CompilerMessage it decoded remain.
BridgeEnd(r) ==
    /\ bridge[r].pc = "report"
    /\ chan' = [Send(chan, r, End) EXCEPT ![r].send = FALSE]
    /\ bridge' = [bridge EXCEPT ![r] =
                    [NoBridge EXCEPT !.pc = "exiting",
                                     !.diags = bridge[r].diags,
                                     !.child = bridge[r].child,
                                     !.res = bridge[r].res,
                                     !.logged = bridge[r].res # "ok"]]
    /\ UNCHANGED <<ownerVars, tasks, loopVars, nRuns>>

\* The thread terminates and its stack is gone; a join on it can return.
\* Of the child only whether it still runs remains.
BridgeExit(r) ==
    /\ bridge[r].pc = "exiting"
    /\ bridge' = [bridge EXCEPT ![r] =
                    [NoBridge EXCEPT !.pc = "exited",
                                     !.child = IF bridge[r].child = "running"
                                               THEN "running" ELSE "none"]]
    /\ UNCHANGED <<ownerVars, tasks, loopVars, nRuns, chan>>

----------------------------------------------------------------------------
\* Flycheck::new has returned: the loop thread is spawned, nothing has run.
Init ==
    /\ dropPc = 0
    /\ cmdQueue = 0
    /\ cmdsSent = 0
    /\ sentActive = 0
    /\ updateFailed = FALSE
    /\ tasks = <<>>
    /\ loopPc = "start"
    /\ loopPanicked = FALSE
    /\ last_update_req = FALSE
    /\ progress = FALSE
    /\ message_recv = Never
    /\ check_process = NoThread
    /\ cmdsRecv = 0
    /\ handled = "none"
    /\ nRuns = 0
    /\ bridge = [r \in Runs |-> NoBridge]
    /\ chan = [r \in Runs |-> NoChan]

BeginBridge == \E r \in Runs, ok \in BOOLEAN : BridgeBegin(r, ok)
ReadLine == \E r \in Runs, kind \in Kinds : BridgeReadLine(r, kind)
ReadStop == \E r \in Runs, kind \in Kinds, os \in OSOutcomes : BridgeReadStop(r, kind, os)
ReadEOF == \E r \in Runs, os \in OSOutcomes : BridgeEOF(r, os)
EndBridge == \E r \in Runs : BridgeEnd(r)
ExitBridge == \E r \in Runs : BridgeExit(r)

LoopStep ==
    \/ LoopStart \/ LoopRecvCmd \/ LoopCmdClosed \/ LoopRecvMsg \/ LoopMsgClosed
    \/ LoopClosedJoined \/ LoopRestartSpawn \/ LoopDropField

\* The steps a check_process thread takes by itself (a read of the child's
\* stdout returns when the child lets it).
BridgeStep == BeginBridge \/ EndBridge \/ ExitBridge

Next ==
    \/ Update
    \/ DropHandle
    \/ DropField
    \/ LoopStart
    \/ LoopRecvCmd
    \/ LoopCmdClosed
    \/ LoopRecvMsg
    \/ LoopMsgClosed
    \/ LoopClosedJoined
    \/ LoopRestartSpawn
    \/ LoopDropField
    \/ BeginBridge
    \/ ReadLine
    \/ ReadStop
    \/ ReadEOF
    \/ EndBridge
    \/ ExitBridge

Spec == Init /\ [][Next]_vars

\* The threads of the program are scheduled fairly: the thread dropping the
\* Flycheck, the loop thread and the check_process threads, of which the
\* one that can take a step is taken as a whole. Nothing is assumed of the
\* owner (it may never drop the handle) nor of the child process (it may
\* neither write nor close its stdout).
LiveSpec ==
    /\ Init /\ [][Next]_vars
    /\ WF_vars(DropField)
    /\ WF_vars(LoopStep)
    /\ WF_vars(BridgeStep)

TypeOK ==
    /\ dropPc \in 0..(Len(DropOrder) + 1)
    /\ cmdQueue \in 0..MaxUpdates
    /\ cmdsSent \in 0..MaxUpdates
    /\ sentActive \in 0..MaxUpdates
    /\ cmdsRecv \in 0..MaxUpdates
    /\ nRuns \in 0..MaxUpdates
    /\ loopPc \in {"start", "select", "restart", "closed", "drop0", "drop1", "exited"}
    /\ message_recv \in {Never} \cup Runs
    /\ handled \in {"none", "begun", "ended"}
    /\ check_process \in {NoThread} \cup Runs
    /\ \A r \in Runs :
        /\ bridge[r].pc \in {"none", "begin", "reading", "report", "exiting", "exited"}
        /\ bridge[r].lines \in 0..MaxLines
        /\ bridge[r].diags \in 0..MaxLines
        /\ bridge[r].pc = "reading" => bridge[r].diags <= bridge[r].lines
        /\ bridge[r].last \in {"none", "Bad", "Skip", "Fwd", "EOF"}
        /\ Len(chan[r].q) <= MaxLines + 2

----------------------------------------------------------------------------
\* Properties

\* A check_process thread that has started and not terminated, or a child
\* process that still runs.
Alive(r) == bridge[r].pc \notin {"none", "exited"} \/ bridge[r].child = "running"

ClearsBefore(j) == Cardinality({i \in 1..(j - 1) : tasks[i].t = "Clear"})
NumClear == ClearsBefore(Len(tasks) + 1)
LastClear == LET cs == {i \in 1..Len(tasks) : tasks[i].t = "Clear"}
             IN IF cs = {} THEN 0 ELSE CHOOSE i \in cs : \A k \in cs : k <= i

\* C1: at most one check_process thread (with its child) is alive in any
\* state, and it is the one check_process holds: a new thread is spawned
\* only after the previous one has terminated with its child killed.
C1_AtMostOneRun ==
    /\ \A r1, r2 \in Runs : Alive(r1) /\ Alive(r2) => r1 = r2
    /\ \A r \in Runs : Alive(r) => check_process = r
    /\ \A r \in Runs : bridge[r].child = "running" => bridge[r].pc = "reading"

\* C1 witness: a restart was requested during a run; the loop has discarded
\* the receiver and waits in the join while the old thread still reads from
\* its running child.
C1_Witness ==
    /\ loopPc = "restart"
    /\ check_process # NoThread
    /\ bridge[check_process].pc = "reading"
    /\ bridge[check_process].child = "running"
    /\ ~chan[check_process].recv

\* C2: every AddDiagnostic of run r is preceded by exactly r + 1
\* ClearDiagnostics (the one of loop entry and one per restart up to r's), so
\* no AddDiagnostic of a cancelled run follows the ClearDiagnostics of the
\* restart that cancelled it; and two AddDiagnostic with no ClearDiagnostics
\* between them (hence any two adjacent ones) are of the same run.
C2_NoInterleaving ==
    /\ \A j \in 1..Len(tasks) :
          tasks[j].t = "Add" => ClearsBefore(j) = tasks[j].run + 1
    /\ \A j \in 1..(Len(tasks) - 1) :
          (tasks[j].t = "Add" /\ tasks[j + 1].t = "Add")
             => tasks[j].run = tasks[j + 1].run

\* C2 witness: diagnostics of run 1 were emitted, run 1 was replaced, and a
\* diagnostic of run 2 was emitted.
C2_Witness ==
    \E i, j \in 1..Len(tasks) :
        /\ i < j
        /\ tasks[i].t = "Add" /\ tasks[i].run = 1
        /\ tasks[j].t = "Add" /\ tasks[j].run = 2

\* The loop is in the middle of a restart: the ClearDiagnostics is sent and
\* the new thread not yet spawned.
InRestart == loopPc = "restart"

\* C3 as stated: after restart requests sent while a run was active, the
\* number of ClearDiagnostics equals the number of runs started.
C3_Original ==
    (loopPc = "select" /\ cmdsSent >= 2 /\ sentActive = cmdsSent - 1
        /\ cmdQueue = 0 /\ ~loopPanicked)
       => NumClear = nRuns

\* C3 amended: the number of ClearDiagnostics is one more than the number of
\* runs started (the one of loop entry starts no run), and two more only
\* while the loop is between the ClearDiagnostics of a restart and the spawn
\* of its thread.
C3_ClearsAreRunsPlusOne ==
    /\ loopPc = "start" => NumClear = 0 /\ nRuns = 0
    /\ (loopPc # "start" /\ ~InRestart) => NumClear = nRuns + 1
    /\ InRestart => NumClear = nRuns + 2

\* C3 witness: two requests, the second sent while run 1 was active, both
\* served.
C3_Witness ==
    /\ loopPc = "select" /\ cmdsSent = 2 /\ sentActive = 1 /\ cmdQueue = 0
    /\ nRuns = 2 /\ NumClear = 3

\* C4: every Update received starts exactly one run and emits exactly one
\* ClearDiagnostics: outside a restart in progress the number of runs
\* started equals the number of Update received, during one it is one less,
\* and the number of ClearDiagnostics after the one of loop entry equals the
\* number of Update received.
C4_OneRunPerUpdate ==
    /\ loopPc = "start" => cmdsRecv = 0 /\ nRuns = 0
    /\ (loopPc # "start" /\ ~InRestart) => nRuns = cmdsRecv /\ NumClear = cmdsRecv + 1
    /\ InRestart => nRuns + 1 = cmdsRecv /\ NumClear = cmdsRecv + 1

\* C4 witness: two Update were sent, neither while a run was active, and
\* both were received; two runs were started, the thread of the first has
\* terminated and the second is under way.
C4_Witness ==
    /\ loopPc = "select" /\ cmdsRecv = 2 /\ nRuns = 2
    /\ cmdsSent = 2 /\ sentActive = 0
    /\ bridge[1].pc = "exited" /\ RunActive(2)

\* C5: when the drop of the Flycheck has returned, the loop thread has
\* terminated, every check_process thread has terminated and no child runs.
C5_NothingOutlivesDrop ==
    DropDone =>
        /\ loopPc = "exited"
        /\ check_process = NoThread
        /\ \A r \in Runs : ~Alive(r)

\* C5 witness: the drop has returned after two runs were started.
C5_Witness == DropDone /\ nRuns = 2 /\ bridge[2].pc = "exited"

\* C7: while the Flycheck has not been dropped the loop thread has neither
\* left its loop nor panicked and cmd_recv exists, so no send of
\* Flycheck::update has failed.
C7_UpdateNeverFails ==
    /\ ~updateFailed
    /\ HandleAlive =>
          /\ CmdRecvAlive
          /\ loopPc \in {"start", "select", "restart", "closed"}
          /\ ~loopPanicked

\* C7 witness: the handle is alive, run 1 has ended and its closed channel
\* was handled by the loop, and a second Update was then enqueued.
C7_Witness ==
    /\ HandleAlive /\ loopPc = "select"
    /\ nRuns = 1 /\ bridge[1].pc = "exited" /\ check_process = NoThread
    /\ cmdsSent = 2 /\ cmdQueue = 1 /\ sentActive = 0

\* Two requests, the second sent while the first run was active, both
\* served, and the second run has ended and its channel is drained.
TwoBackToBack ==
    /\ cmdsSent = 2 /\ sentActive = 1 /\ cmdQueue = 0
    /\ loopPc = "select" /\ nRuns = 2
    /\ bridge[2].pc = "exited" /\ message_recv = Never

AddsOf(r) == {i \in 1..Len(tasks) : tasks[i].t = "Add" /\ tasks[i].run = r}

\* C8 as stated: in that scenario exactly two ClearDiagnostics are on the
\* task stream, and the diagnostics on it are those of one run.
C8_Original ==
    TwoBackToBack =>
        /\ NumClear = 2
        /\ AddsOf(1) = {} \/ AddsOf(2) = {}

\* C8 amended: in that scenario three ClearDiagnostics are on the task
\* stream (loop entry and one per request), every task after the last of
\* them is a diagnostic of run 2, any diagnostic of run 1 precedes it; and
\* in every state in which run 2 has been started, the thread of run 1 has
\* terminated and its child does not run.
C8_TwoRestarts ==
    /\ TwoBackToBack =>
          /\ NumClear = 3
          /\ \A i \in 1..Len(tasks) :
                tasks[i].t = "Add" =>
                    (IF i > LastClear THEN tasks[i].run = 2 ELSE tasks[i].run = 1)
    /\ bridge[2].pc # "none" => bridge[1].pc = "exited" /\ bridge[1].child # "running"

\* C8 witness: the scenario, with a diagnostic of each run on the stream.
C8_Witness == TwoBackToBack /\ AddsOf(1) # {} /\ AddsOf(2) # {}

\* C9: before its first receive the loop has sent exactly one
\* ClearDiagnostics, first on the task stream, and progress is None; the
\* loop thread receives nothing before that.
C9_ClearOnEntry ==
    /\ loopPc = "start" => tasks = <<>> /\ cmdsRecv = 0 /\ nRuns = 0
    /\ (loopPc # "start" /\ ~loopPanicked) => Len(tasks) >= 1 /\ tasks[1] = ClearDiagnostics
    /\ (loopPc = "select" /\ cmdsRecv = 0) => tasks = <<ClearDiagnostics>> /\ ~progress

\* C9 witness: no restart was requested and the loop waits in select!.
C9_Witness == loopPc = "select" /\ cmdsSent = 0 /\ tasks = <<ClearDiagnostics>>

\* run_cargo has returned in the thread of run r.
Returned(r) == bridge[r].pc \in {"report", "exiting"}

\* C10: run_cargo returns Err exactly when spawn or wait failed or the
\* exit status was failing with no line decoded; it returns Ok whenever the
\* callback stopped it (and the wait succeeded); an Err is logged by the
\* thread, and a run that failed for lack of output has put no message on
\* its channel and no diagnostic on the task stream; no thread panics.
C10_RunCargoResult ==
    /\ \A r \in Runs : bridge[r].pc = "report" =>
          /\ bridge[r].res # "ok" <=>
                \/ bridge[r].os \in {"spawn_failed", "wait_failed"}
                \/ bridge[r].os = "exit_fail" /\ ~bridge[r].readOne
          /\ (bridge[r].stopped /\ bridge[r].os # "wait_failed") => bridge[r].res = "ok"
    /\ \A r \in Runs : Returned(r) =>
          /\ bridge[r].res \in {"ok", "err_spawn", "err_wait", "err_status"}
          /\ bridge[r].res \in {"err_status", "err_spawn"} =>
                /\ AddsOf(r) = {}
                /\ \A i \in 1..Len(chan[r].q) : chan[r].q[i].e # "Msg"
          /\ bridge[r].pc = "exiting" => (bridge[r].logged <=> bridge[r].res # "ok")
    /\ ~loopPanicked /\ ~updateFailed

\* C10 witness: the callback stopped the run after a decoded message, the
\* child was killed and reported a failing status, and run_cargo returned Ok.
C10_Witness ==
    \E r \in Runs :
        /\ bridge[r].pc = "report" /\ bridge[r].stopped /\ bridge[r].readOne
        /\ bridge[r].os = "exit_fail" /\ bridge[r].res = "ok"

\* The drop of the Flycheck has begun; it is at the join of the loop thread.
DropBegun == dropPc >= 1
AtJoin == DropBegun /\ ~DropDone /\ DropOrder[dropPc] = "handle"

\* No check_process thread stays in the read loop of run_cargo for ever:
\* every child eventually closes its stdout or makes the callback stop.
NoChildHangs == \A r \in Runs : []<>(bridge[r].pc # "reading")

\* C6 as stated: cmd_send is dropped before the loop thread is joined, and
\* with the threads of the program scheduled fairly every drop that begins
\* returns.
C6_Original ==
    /\ [](AtJoin => ~CmdSendAlive)
    /\ DropBegun ~> DropDone

\* C6 amended: cmd_send is dropped before the loop thread is joined, and
\* with the threads of the program scheduled fairly every drop that begins
\* returns, provided no child keeps its thread reading for ever.
C6_DropReturns ==
    /\ [](AtJoin => ~CmdSendAlive)
    /\ NoChildHangs => (DropBegun ~> DropDone)

\* C6 witness: the drop began during a run with an Update still queued; the
\* Flycheck waits in the join with cmd_send dropped, and the loop thread has
\* seen the closed channel and waits in turn for the thread of run 2.
C6_Witness ==
    /\ AtJoin /\ ~CmdSendAlive
    /\ loopPc = "drop1" /\ check_process = 2 /\ bridge[2].pc = "reading"

\* The thread of run r reads one more item of its child's stdout in this step.
ReadsItem(r) ==
    /\ bridge[r].pc = "reading"
    /\ bridge'[r] # bridge[r]
    /\ bridge'[r].last # "EOF"

\* C11: an item that fails to decode leaves the thread in the read loop, does
\* not mark a message as read and puts nothing on the channel (the callback
\* is not invoked); the read loop ends only at the end of the stream or when
\* the callback stops it, never at an undecodable line; and a valid line read
\* right after an undecodable one is decoded (it marks a message as read) and
\* passed to the callback: one the filter forwards is appended to the channel
\* and the loop goes on while the receiver exists, and stops the loop when
\* it does not.
C11_BadLineSkipped ==
    [][\A r \in Runs :
          /\ (ReadsItem(r) /\ bridge'[r].last = "Bad") =>
                /\ bridge'[r].pc = "reading"
                /\ bridge'[r].readOne = bridge[r].readOne
                /\ chan'[r] = chan[r]
                /\ tasks' = tasks
          /\ bridge'[r].pc = "report" /\ bridge[r].pc = "reading" =>
                \/ bridge'[r].last = "EOF"
                \/ bridge'[r].last = "Fwd" /\ bridge'[r].stopped
          /\ (ReadsItem(r) /\ bridge[r].last = "Bad" /\ bridge'[r].last # "Bad") =>
                /\ bridge'[r].readOne
                /\ bridge'[r].last = "Skip" =>
                      bridge'[r].pc = "reading" /\ chan'[r] = chan[r]
                /\ bridge'[r].last = "Fwd" =>
                      IF chan[r].recv
                      THEN /\ bridge'[r].pc = "reading"
                           /\ Len(chan'[r].q) = Len(chan[r].q) + 1
                           /\ chan'[r].q[Len(chan'[r].q)].e = "Msg"
                      ELSE bridge'[r].pc = "report" /\ bridge'[r].stopped
      ]_vars

\* C11 witness: the first line of run 1 did not decode; the thread still
\* reads, no message counts as read, the channel holds what it held, and a
\* compiler message can be read next.
C11_Witness ==
    /\ bridge[1].pc = "reading" /\ bridge[1].lines = 1 /\ bridge[1].last = "Bad"
    /\ ~bridge[1].readOne
    /\ chan[1].q = <<Begin>>
    /\ ENABLED BridgeReadLine(1, "Diag")

\* The loop thread is in run, between loop entry and the end of its loop.
InLoop == loopPc \in {"select", "restart", "closed"}

\* C12: in every state of the loop, progress is Some exactly when the Begin
\* of the latest run has been handled and its End has not.
C12_ProgressIffBegun ==
    InLoop => (progress <=> handled = "begun")

\* The loop thread has left its loop: it drops the FlycheckThread or is gone.
LoopLeft == loopPc \in {"drop0", "drop1", "exited"}

\* C13: the loop thread leaves its loop only from select!, with the command
\* channel empty and its sender dropped, and without a panic; the closed
\* event channel leads to the join inside the loop with message_recv set to
\* never(), and from there back into the loop with check_process None; with
\* message_recv never() the loop waiting in select! holds no thread and can
\* be woken by a command (or the closed command channel) only, and a queued
\* command is then received.
C13_ExitOnlyOnCmdClosed ==
    /\ [][(~LoopLeft /\ LoopLeft') =>
             /\ loopPc = "select" /\ cmdQueue = 0 /\ ~CmdSendAlive
             /\ ~loopPanicked']_vars
    /\ [][(loopPc = "select" /\ message_recv # Never /\ message_recv' = Never
             /\ chan[message_recv].q = <<>> /\ ~chan[message_recv].send
             /\ cmdQueue' = cmdQueue) =>
             loopPc' = "closed"]_vars
    /\ [][loopPc = "closed" /\ loopPc' # "closed" =>
             /\ loopPc' \in {"select", "restart"}
             /\ check_process' = NoThread]_vars
    /\ [](loopPc = "closed" => message_recv = Never)
    /\ []((loopPc = "select" /\ message_recv = Never) =>
             /\ check_process = NoThread
             /\ ~ENABLED LoopRecvMsg /\ ~ENABLED LoopMsgClosed
             /\ cmdQueue > 0 => ENABLED LoopRecvCmd)

\* C13 witness: run 1 has ended, the loop has handled its End and its closed
\* channel and is back in select! with never() and no thread, the handle is
\* alive and a further Update is queued, which the loop can receive.
C13_Witness ==
    /\ loopPc = "select" /\ message_recv = Never /\ check_process = NoThread
    /\ nRuns = 1 /\ handled = "ended" /\ bridge[1].pc = "exited"
    /\ HandleAlive /\ cmdQueue = 1
    /\ ENABLED LoopRecvCmd

\* The events of q at the positions in ps.
EventsAt(q, ps) == {q[i].e : i \in ps}

\* C14: for the run whose channel the loop holds, what the loop has handled
\* followed by what the channel holds is a prefix of Begin, Msg*, End: Begin
\* is only ever first and is there until handled, End is only ever last and
\* nothing follows it once handled, the thread has put nothing before its
\* Begin and no End before run_cargo has returned and the child has stopped
\* running, and the event the loop is about to handle is a Msg or an End
\* only if it has handled the Begin. Every other channel is empty.
C14_BeginMsgEnd ==
    \A r \in Runs :
        LET q == chan[r].q
            n == Len(q)
        IN IF ~chan[r].recv
           THEN q = <<>>
           ELSE /\ r = message_recv /\ r = nRuns
                /\ bridge[r].pc = "begin" => q = <<>> /\ handled = "none"
                /\ (bridge[r].pc # "begin" /\ handled = "none") =>
                      n >= 1 /\ q[1].e = "Begin"
                /\ handled # "none" => "Begin" \notin EventsAt(q, 1..n)
                /\ "Begin" \notin EventsAt(q, 2..n)
                /\ "End" \notin EventsAt(q, 1..(n - 1))
                /\ handled = "ended" => q = <<>>
                /\ (handled = "ended" \/ "End" \in EventsAt(q, 1..n)) =>
                      /\ bridge[r].pc \in {"exiting", "exited"}
                      /\ bridge[r].child # "running"
                      /\ ~chan[r].send
                /\ (bridge[r].pc \in {"exiting", "exited"} /\ handled # "ended") =>
                      n >= 1 /\ q[n].e = "End"
                /\ (loopPc = "select" /\ n >= 1 /\ q[1].e \in {"Msg", "End"}) =>
                      handled = "begun"

\* C14 witness: run 1 has run to its end before the loop handled any of its
\* events; its channel holds Begin, one message and End, and the child was
\* killed and reaped.
C14_Witness ==
    /\ chan[1].recv /\ handled = "none"
    /\ Len(chan[1].q) = 3
    /\ chan[1].q[1] = Begin /\ chan[1].q[2].e = "Msg" /\ chan[1].q[3] = End
    /\ bridge[1].pc = "exiting" /\ bridge[1].child = "reaped"

\* C15 as stated: with the receiver of its channel gone, the thread leaves
\* the read loop at the next message it decodes, whatever its kind, and the
\* child is then killed.
C15_Original ==
    [][\A r \in Runs :
          (ReadsItem(r) /\ ~chan[r].recv /\ bridge'[r].last \in {"Skip", "Fwd"}) =>
              bridge'[r].pc = "report" /\ bridge'[r].child # "running"]_vars

\* C15 amended: with the receiver of its channel gone, the thread leaves the
\* read loop at the next decoded message that the filter does not suppress,
\* and the child is then killed (it does not run any more); at a message the
\* filter suppresses, as at an undecodable line, it stays in the read loop
\* with the child running; while the receiver exists no message makes it
\* leave.
C15_StopsAtForwarded ==
    [][\A r \in Runs :
          ReadsItem(r) =>
              IF ~chan[r].recv /\ bridge'[r].last = "Fwd"
              THEN /\ bridge'[r].pc = "report" /\ bridge'[r].stopped
                   /\ bridge'[r].child # "running"
                   /\ chan'[r] = chan[r]
              ELSE /\ bridge'[r].pc = "reading" /\ ~bridge'[r].stopped
                   /\ bridge'[r].child = "running"]_vars

\* C15 witness: the loop has dropped the receiver of run 1 for a restart,
\* and the thread of run 1 has met a message the filter forwards, left the
\* read loop and killed its child.
C15_Witness ==
    /\ loopPc = "restart" /\ check_process = 1 /\ ~chan[1].recv
    /\ bridge[1].pc = "report" /\ bridge[1].stopped /\ bridge[1].last = "Fwd"
    /\ bridge[1].child = "reaped"

\* No check_process thread stays for ever in the read loop of run_cargo with
\* the receiver of its channel gone: every child eventually closes its
\* stdout or writes a message that the filter forwards.
ChildLetsGo ==
    \A r \in Runs : []<>~(bridge[r].pc = "reading" /\ ~chan[r].recv)

\* The loop thread is blocked in the join of restart_check_process.
BlockedInRestart == InRestart /\ ~JoinDone(check_process)

\* C16: with the threads of the program scheduled fairly and every child
\* letting go, a restart the loop has begun is eventually completed; the loop
\* leaves the restart only by spawning the next run, with the thread it held
\* terminated and its child not running; and while that thread has not
\* terminated the loop thread can take no step: it receives no command and
\* no event.
C16_RestartCompletes ==
    /\ ChildLetsGo => (InRestart ~> ~InRestart)
    /\ [][(InRestart /\ ~InRestart') =>
             /\ nRuns' = nRuns + 1 /\ check_process' = nRuns' /\ loopPc' = "select"
             /\ \A r \in 1..nRuns : bridge[r].pc = "exited" /\ bridge[r].child # "running"
          ]_vars
    /\ [](BlockedInRestart => ~ENABLED LoopStep)

\* C16 witness: an Update sent while run 1 was active has been received and
\* the loop is blocked in the join while the thread of run 1 reads; cmd_send
\* has been dropped meanwhile, which the loop cannot observe.
C16_Witness ==
    /\ BlockedInRestart /\ check_process = 1 /\ bridge[1].pc = "reading"
    /\ sentActive = 1 /\ handled = "begun" /\ ~CmdSendAlive

\* The event the loop thread would handle next, if it is of the kind k.
NextEventIs(k) ==
    /\ loopPc = "select" /\ message_recv # Never
    /\ chan[message_recv].q # <<>>
    /\ Head(chan[message_recv].q).e = "Msg"
    /\ Head(chan[message_recv].q).kind = k

\* C17: the expect of handle_message never fails: the loop thread never
\* panics, and whenever the event it is about to handle is a CompilerArtifact
\* message, progress is Some and the Begin of that run has been handled;
\* only artifacts that are not fresh are ever on a channel.
C17_ProgressBeforeArtifact ==
    /\ ~loopPanicked
    /\ NextEventIs("Artifact") => progress /\ handled = "begun"
    /\ \A r \in Runs : \A i \in 1..Len(chan[r].q) :
          chan[r].q[i].e = "Msg" => ~Filtered(chan[r].q[i].kind)

\* C17 witness: run 1 was replaced on an Update sent while it was active,
\* and the loop is about to handle a CompilerArtifact message of run 2.
C17_Witness ==
    /\ NextEventIs("Artifact") /\ message_recv = 2 /\ sentActive = 1
    /\ progress

\* C18: no Update is lost: every Update sent is queued or received; the
\* loop thread has left its loop only with every Update sent received
\* (dropping cmd_send discards none), one run started and one
\* ClearDiagnostics sent for each after the one of loop entry; when the
\* thread has terminated no check_process thread is left and no child runs.
C18_QueuedUpdatesServed ==
    /\ cmdsRecv + cmdQueue = cmdsSent
    /\ LoopLeft =>
          /\ ~loopPanicked
          /\ cmdQueue = 0 /\ cmdsRecv = cmdsSent
          /\ nRuns = cmdsSent /\ NumClear = cmdsSent + 1
    /\ loopPc = "exited" => \A r \in Runs : ~Alive(r)
    /\ (~CmdSendAlive /\ cmdQueue > 0 /\ loopPc = "select")
          => ENABLED LoopRecvCmd /\ ~ENABLED LoopCmdClosed

\* C18 witness: cmd_send has been dropped and the Flycheck waits in the join
\* of the loop thread; an Update is still queued, the loop is in select!
\* after having started run 1, and it can receive the Update but cannot yet
\* see the channel closed.
C18_Witness ==
    /\ AtJoin /\ ~CmdSendAlive /\ cmdQueue = 1
    /\ loopPc = "select" /\ cmdsRecv = 1 /\ nRuns = 1
    /\ ENABLED LoopRecvCmd /\ ~ENABLED LoopCmdClosed

\* The AddDiagnostic tasks of run r on the task stream, and the
\* CompilerMessage events on its channel, in order.
IsAddOf(r, t) == t.t = "Add" /\ t.run = r
AddSeq(r) == SelectSeq(tasks, LAMBDA t : IsAddOf(r, t))
IsDiagMsg(ev) == ev.e = "Msg" /\ ev.kind = "Diag"
DiagSeq(r) == SelectSeq(chan[r].q, IsDiagMsg)

\* C19: for every run r, the AddDiagnostic of r lie between the
\* ClearDiagnostics of r's restart and the next one, and the i-th of them
\* carries the i-th CompilerMessage decoded from r's child: they are, in
\* order and without duplicate or gap, a prefix of what was decoded; while
\* the loop holds r's channel, that prefix followed by the CompilerMessage
\* events still on the channel is all that was decoded so far; and once the
\* loop has handled the End of r (nothing having replaced r), the
\* AddDiagnostic of r are all those decoded.
C19_AddsArePrefix ==
    \A r \in Runs :
        LET adds == AddSeq(r)
            qd == DiagSeq(r)
            live == bridge[r].pc \in {"reading", "report", "exiting"}
        IN /\ \A j \in 1..Len(tasks) :
                 IsAddOf(r, tasks[j]) => ClearsBefore(j) = r + 1
           /\ \A i \in 1..Len(adds) : adds[i].n = i
           /\ live => Len(adds) <= bridge[r].diags
           /\ (live /\ chan[r].recv) =>
                 /\ \A i \in 1..Len(qd) : qd[i].n = Len(adds) + i
                 /\ Len(adds) + Len(qd) = bridge[r].diags
           /\ (bridge[r].pc = "exiting" /\ r = nRuns /\ handled = "ended") =>
                 Len(adds) = bridge[r].diags

\* C19 witness: the child of run 1 wrote two compiler messages and closed
\* its stdout; the loop has handled every event of run 1 up to its End
\* without a restart, and both diagnostics are on the task stream in order.
C19_Witness ==
    /\ bridge[1].pc = "exiting" /\ bridge[1].diags = 2
    /\ nRuns = 1 /\ handled = "ended"
    /\ tasks = <<ClearDiagnostics, ClearDiagnostics,
                 AddDiagnostic(1, 1), AddDiagnostic(1, 2)>>

\* C20: no send on the task channel fails: the loop thread never panics,
\* task_recv exists as long as the loop thread does (it is dropped only
\* after the join of the loop thread has returned), and every step that
\* puts a task on the stream is taken with task_recv alive, and puts
\* exactly one.
C20_TaskSendsSucceed ==
    /\ [](~loopPanicked)
    /\ [](~TaskRecvAlive => loopPc = "exited" /\ ~CmdSendAlive)
    /\ [][tasks' # tasks =>
             /\ TaskRecvAlive /\ TaskRecvAlive'
             /\ Len(tasks') = Len(tasks) + 1
             /\ SubSeq(tasks', 1, Len(tasks)) = tasks]_vars

\* C20 witness: the drop of the Flycheck is waiting in the join of the loop
\* thread, task_recv not yet dropped, and the loop is about to handle a
\* compiler message, for which it will send an AddDiagnostic.
C20_Witness ==
    /\ AtJoin /\ TaskRecvAlive
    /\ NextEventIs("Diag")
    /\ ENABLED LoopRecvMsg

====
